---- MODULE Spec2Model ----
(***************************************************************************)
(* The airdrop contract of src/src/contract.rs as a state machine.         *)
(*                                                                         *)
(* The host runs one message to completion before the next, and an Err     *)
(* result or a panic discards every write of the message, so each handler  *)
(* is one atomic action.  A failed call leaves the storage as it was and   *)
(* shows only in `last`, the response the host returned to the latest      *)
(* message.                                                                *)
(*                                                                         *)
(* Uint128 arithmetic is checked (it panics rather than wraps).  The       *)
(* amounts of the model stay far below 2^128, so of the panics only the    *)
(* subtraction underflow and the division by zero can happen here.         *)
(***************************************************************************)
EXTENDS Integers, Sequences, FiniteSets, TLC

\* ------------------------------------------------------------------ bounds
MaxFunds == 3        \* the token contract reports at most this much in all
MaxRound == 2        \* resets are cut off once current_round_id = MaxRound

\* --------------------------------------------------------------- addresses
\* Who sends each kind of message.  Addresses that hold no role and no leaf
\* are handled alike, so one of them stands for all: the two claimants and
\* an address outside the snapshot; either operator and a claimant; either
\* contract and a claimant.
Claimants == {"addrA", "addrB", "owner"}
Operators == {"owner", "backend", "addrA"}
Contracts == {"erth", "alloc", "addrA"}

\* The bytes of an address string: one character code per address, none of
\* them a decimal digit or the colon (addresses hold no colon).
AddrBytes(address) ==
    CASE address = "owner"   -> <<111>>
      [] address = "backend" -> <<98>>
      [] address = "erth"    -> <<101>>
      [] address = "alloc"   -> <<108>>
      [] address = "addrA"   -> <<65>>
      [] address = "addrB"   -> <<66>>

\* ------------------------------------------------------------ Result types
Ok(v) == [ok |-> TRUE, val |-> v]
Err(e) == [ok |-> FALSE, err |-> e]

\* Option<T>: <<>> is None, <<x>> is Some(x).
None == <<>>
Some(x) == <<x>>

\* --------------------------------------------------------- decimal strings
\* Uint128::to_string: the decimal digits as ASCII codes, no leading zeros.
RECURSIVE to_string(_)
to_string(n) ==
    IF n < 10 THEN <<48 + n>> ELSE to_string(n \div 10) \o <<48 + (n % 10)>>

\* The number a decimal string stands for.
RECURSIVE ParseUint(_)
ParseUint(s) ==
    IF s = <<>> THEN 0
    ELSE 10 * ParseUint(SubSeq(s, 1, Len(s) - 1)) + (s[Len(s)] - 48)

\* ------------------------------------------------------------------ SHA-256
\* SHA-256 as a collision-free function of the message bytes: the digest is
\* the message itself under a tag and its length, so that two digests are
\* equal exactly when the messages are, and, like two 32-byte digests, two
\* concatenated digests can be told apart.
Sha256(message) == <<256, Len(message)>> \o message

\* Vec<u8> ordering: lexicographic.
RECURSIVE BytesLeq(_, _)
BytesLeq(a, b) ==
    IF a = <<>> THEN TRUE
    ELSE IF b = <<>> THEN FALSE
    ELSE IF Head(a) < Head(b) THEN TRUE
    ELSE IF Head(a) > Head(b) THEN FALSE
    ELSE BytesLeq(Tail(a), Tail(b))

\* -------------------------------------------------------------- hex strings
\* A hex string: how many "0x" it starts with, whether its digits are well
\* formed (even length, hex characters only), the letter case of its
\* digits, and the bytes the digits spell.
HexEncode(bytes) ==
    [prefix |-> 0, wellformed |-> TRUE, upper |-> FALSE, digits |-> bytes]

\* format!("0x{}", s)
With0x(s) == [s EXCEPT !.prefix = @ + 1]

\* The same digits in upper case, and the string without its "0x".
UpperCase(s) == [s EXCEPT !.upper = TRUE]
Without0x(s) == [s EXCEPT !.prefix = 0]

\* A string that is no hex at all.
BadHex == [prefix |-> 0, wellformed |-> FALSE, upper |-> FALSE, digits |-> <<>>]

hex_to_bytes(hex_str) ==
    LET stripped == IF hex_str.prefix > 0
                    THEN [hex_str EXCEPT !.prefix = @ - 1]
                    ELSE hex_str
    IN  IF stripped.prefix = 0 /\ stripped.wellformed
        THEN Ok(stripped.digits)
        ELSE Err("Invalid hex")

compute_leaf_hash(address, amount) ==
    With0x(HexEncode(Sha256(AddrBytes(address) \o <<58>> \o amount)))

\* One step of the fold: sorted pair hashing.
HashPair(computed_hash, proof_bytes) ==
    IF BytesLeq(computed_hash, proof_bytes)
    THEN Sha256(computed_hash \o proof_bytes)
    ELSE Sha256(proof_bytes \o computed_hash)

RECURSIVE FoldProof(_, _)
FoldProof(computed_hash, proof) ==
    IF proof = <<>> THEN Ok(computed_hash)
    ELSE LET proof_bytes == hex_to_bytes(Head(proof))
         IN  IF ~proof_bytes.ok THEN proof_bytes
             ELSE FoldProof(HashPair(computed_hash, proof_bytes.val), Tail(proof))

\* The comparison that ends verify_merkle_proof.
RootMatchesAlways(computed_hash, root) == TRUE
RootMatches(computed_hash, root) == With0x(HexEncode(computed_hash)) = root

verify_merkle_proof(proof, root, leaf_hash) ==
    LET start == hex_to_bytes(leaf_hash)
    IN  IF ~start.ok THEN start
        ELSE LET folded == FoldProof(start.val, proof)
             IN  IF ~folded.ok THEN folded
                 ELSE Ok(RootMatches(folded.val, root))

\* ------------------------------------------------------------- Uint128 math
\* Uint128 - Uint128: panics when the result would be negative.
checked_sub(a, b) == IF b > a THEN Err("panic: attempt to subtract with overflow") ELSE Ok(a - b)

\* Uint128::multiply_ratio: floor(self * numerator / denominator) over a
\* 256-bit product; panics on a zero denominator.
multiply_ratio_divides_first(self, numerator, denominator) ==
    IF denominator = 0 THEN Err("panic: Denominator must not be zero")
    ELSE Ok(self * (numerator \div denominator))
multiply_ratio(self, numerator, denominator) ==
    IF denominator = 0 THEN Err("panic: Denominator must not be zero")
    ELSE Ok((self * numerator) \div denominator)

\* -------------------------------------------------------------------- inputs
\* The Config values an InstantiateMsg or an UpdateConfig may carry.
Config0 ==
    [owner |-> "owner", backend_wallet |-> "backend",
     erth_token_contract |-> "erth", erth_token_hash |-> "erth_hash",
     allocation_contract |-> "alloc", allocation_hash |-> "alloc_hash"]

Config1 ==
    [owner |-> "backend", backend_wallet |-> "owner",
     erth_token_contract |-> "alloc", erth_token_hash |-> "alloc_hash",
     allocation_contract |-> "erth", allocation_hash |-> "erth_hash"]

Configs == {Config0, Config1}

\* The stake a Claim may name, the total stake a ResetAirdrop may name (none,
\* less than the snapshot holds, and what it holds), the amount of a Receive.
Stakes == {1, 2}
TotalStakes == {0, 1, 3}
Deposits == {1, 2}

\* The snapshot the backend publishes: addrA holds 1 and addrB holds 2 of a
\* total stake of 3; and a snapshot of the one leaf (addrA, 2).
LeafA == compute_leaf_hash("addrA", to_string(1))
LeafB == compute_leaf_hash("addrB", to_string(2))
LeafA2 == compute_leaf_hash("addrA", to_string(2))

\* The root of the two-leaf tree, built as the backend builds it.
TreeRoot == HashPair(hex_to_bytes(LeafA).val, hex_to_bytes(LeafB).val)

RootAB == With0x(HexEncode(TreeRoot))
RootA2 == LeafA2

Roots == {RootAB, RootA2}

\* The proofs a Claim may carry: none, the sibling of either leaf, and one
\* that is not hex.
Proofs == {<<>>, <<LeafB>>, <<LeafA>>, <<BadHex>>}

\* A third snapshot: the two leaves above and (owner, 1), built as a tree of
\* depth two whose root pairs the root of the first two with the third leaf.
LeafC == compute_leaf_hash("owner", to_string(1))
Root3 == With0x(HexEncode(HashPair(TreeRoot, hex_to_bytes(LeafC).val)))

\* The two-leaf root as other tools print it: without "0x", in upper case.
RootABNoPrefix == Without0x(RootAB)
RootABUpper == UpperCase(RootAB)

\* The wider inputs of the verifier: every root above, and proofs that are
\* right, re-spelled (upper case, no "0x"), reordered, of another tree, not hex.
WideRoots == {RootAB, RootA2, Root3, RootABNoPrefix, RootABUpper}

WideProofs ==
    {<<>>, <<LeafB>>, <<LeafA>>, <<BadHex>>,
     <<UpperCase(LeafB)>>, <<Without0x(LeafB)>>, <<LeafA2>>, <<RootAB>>,
     <<LeafB, LeafC>>, <<LeafA, LeafC>>, <<LeafC, LeafB>>}

WideTotalStakes == {4}

\* One deposit funds the rounds of the wider runs.
WideDeposits == {MaxFunds}

\* env.block.time.seconds() of the block that runs the reset which opens
\* round round_id: later blocks have later times.
BlockTime(round_id) == 1000 * round_id

\* The payloads a Receive may carry: the one recognised tag, or bytes that
\* do not decode.
Payloads == {"allocation_send", "garbage"}

\* ------------------------------------------------------------------- state
VARIABLES
    config,     \* CONFIG
    state,      \* STATE: pending_reward, current_round_id
    round,      \* CURRENT_ROUND: None before the first reset
    claims,     \* CLAIMS: (round_id, address) -> the stake string
    transfers,  \* history: (round_id, address) -> how many transfers emitted
    paid,       \* history: the sum of the amounts of all transfers emitted
    received,   \* history: the sum of the amounts receive_allocation accepted
    last        \* the latest message's kind and the response to it

vars == <<config, state, round, claims, transfers, paid, received, last>>

\* What the contract has emitted and accepted so far (observed only: the contract does not store it).
history == <<transfers, paid, received>>

\* What the contract stores.
storage == <<config, state, round, claims>>

\* Keymap::get and Keymap::insert.
KeymapGet(map, key) == IF key \in DOMAIN map THEN Some(map[key]) ELSE None
KeymapInsertAlone(map, key, value) == [k \in {key} |-> value]
KeymapInsert(map, key, value) ==
    [k \in DOMAIN map \cup {key} |-> IF k = key THEN value ELSE map[k]]

Init ==
    /\ config \in Configs
    /\ state = [pending_reward |-> 0, current_round_id |-> 0]
    /\ round = None
    /\ claims = <<>>
    /\ transfers = <<>>
    /\ paid = 0
    /\ received = 0
    /\ last = [op |-> "instantiate", err |-> "", messages |-> <<>>]

\* An Err result or a panic: the host discards the writes and the messages.
Fail(call, e) ==
    /\ last' = [op |-> call.op, err |-> e, messages |-> <<>>]
    /\ UNCHANGED <<storage, history>>

Respond(call, messages) ==
    last' = [op |-> call.op, err |-> "", messages |-> messages]

\* ------------------------------------------------------------------- Claim
\* The key of CLAIMS under which a claim is looked up and recorded.
ClaimKey(round_id, sender) == <<round_id, sender>>

\* Check if already claimed in this round.
AlreadyClaimedNever(key) == FALSE
AlreadyClaimed(key) == KeymapGet(claims, key) # None

\* Verify the merkle proof: a proof that does not hash to the root is refused.
ProofRefusedNever(is_valid) == FALSE
ProofRefused(is_valid) == ~is_valid

\* The proportional share: (user_stake / total_stake) * total_amount.
ClaimAmountRoundedUp(r, stake_amount) ==
    IF r.total_stake = 0 THEN Err("panic: Denominator must not be zero")
    ELSE Ok((r.total_amount * stake_amount + r.total_stake - 1) \div r.total_stake)
ClaimAmount(r, stake_amount) ==
    multiply_ratio(r.total_amount, stake_amount, r.total_stake)

\* snip20::transfer_msg to the reward token, and the allocation claim.
TransferMsg(cfg, recipient, amount) ==
    [kind |-> "transfer", contract_addr |-> cfg.erth_token_contract,
     code_hash |-> cfg.erth_token_hash, recipient |-> recipient,
     amount |-> amount, allocation_id |-> 0]

ClaimAllocationMsg(cfg) ==
    [kind |-> "claim_allocation", contract_addr |-> cfg.allocation_contract,
     code_hash |-> cfg.allocation_hash, recipient |-> "",
     amount |-> 0, allocation_id |-> 4]

\* The writes and the response of a claim that passed every check.
ClaimCommit(call, r, key, claim_amount) ==
    /\ claims' = KeymapInsert(claims, key, to_string(call.amount))
    /\ round' = Some([r EXCEPT !.claimed_amount = @ + claim_amount])
    /\ transfers' = KeymapInsert(transfers, key,
                        (IF key \in DOMAIN transfers THEN transfers[key] ELSE 0) + 1)
    /\ paid' = paid + claim_amount
    /\ Respond(call, <<TransferMsg(config, call.sender, claim_amount),
                       ClaimAllocationMsg(config)>>)
    /\ UNCHANGED <<config, state, received>>

execute_claim(sender, stake_amount, proof) ==
    LET call == [op |-> "claim", sender |-> sender, amount |-> stake_amount,
                 proof |-> proof]
    IN  IF round = None THEN Fail(call, "No active airdrop round")
        ELSE
        LET r == round[1]
            key == ClaimKey(r.round_id, sender)
        IN  IF AlreadyClaimed(key)
            THEN Fail(call, "Already claimed for this round")
            ELSE
            LET leaf_hash == compute_leaf_hash(sender, to_string(stake_amount))
                verified == verify_merkle_proof(proof, r.merkle_root, leaf_hash)
            IN  IF ~verified.ok THEN Fail(call, verified.err)
                ELSE IF ProofRefused(verified.val) THEN Fail(call, "Invalid merkle proof")
                ELSE
                LET claim_amount == ClaimAmount(r, stake_amount)
                IN  IF ~claim_amount.ok THEN Fail(call, claim_amount.err)
                    ELSE ClaimCommit(call, r, key, claim_amount.val)

\* ------------------------------------------------------------ ResetAirdrop
\* Unclaimed from the previous round, if one exists.
Unclaimed ==
    IF state.current_round_id > 0
    THEN IF round = None THEN Err("not found")
         ELSE checked_sub(round[1].total_amount, round[1].claimed_amount)
    ELSE Ok(0)

\* New airdrop total = pending_reward + unclaimed from previous.
NewTotalPendingOnly(pending_reward, unclaimed) == pending_reward
NewTotal(pending_reward, unclaimed) == pending_reward + unclaimed

NextRoundIdSkips(current_round_id) == current_round_id + 2
NextRoundId(current_round_id) == current_round_id + 1

\* The AirdropRound a reset stores.
NewRoundStaleId(round_id, merkle_root, new_total, total_stake) ==
    [round_id |-> round_id - 1, merkle_root |-> merkle_root,
     total_amount |-> new_total, total_stake |-> total_stake,
     claimed_amount |-> 0, start_time |-> BlockTime(round_id)]
NewRound(round_id, merkle_root, new_total, total_stake) ==
    [round_id |-> round_id, merkle_root |-> merkle_root,
     total_amount |-> new_total, total_stake |-> total_stake,
     claimed_amount |-> 0, start_time |-> BlockTime(round_id)]

\* Only the backend wallet can reset.
IsBackendOrOwner(sender) == sender = config.backend_wallet \/ sender = config.owner
IsBackend(sender) == sender = config.backend_wallet

execute_reset_airdrop(sender, merkle_root, total_stake) ==
    LET call == [op |-> "reset_airdrop", sender |-> sender,
                 merkle_root |-> merkle_root, total_stake |-> total_stake]
    IN  /\ state.current_round_id < MaxRound
        /\ IF ~IsBackend(sender)
           THEN Fail(call, "Unauthorized: only backend wallet can reset airdrop")
           ELSE
           LET unclaimed == Unclaimed
           IN  IF ~unclaimed.ok THEN Fail(call, unclaimed.err)
               ELSE
               LET round_id == NextRoundId(state.current_round_id)
                   new_total == NewTotal(state.pending_reward, unclaimed.val)
               IN  /\ round' = Some(NewRound(round_id, merkle_root, new_total,
                                              total_stake))
                   /\ state' = [pending_reward |-> 0,
                                current_round_id |-> round_id]
                   /\ Respond(call, <<>>)
                   /\ UNCHANGED <<config, claims, transfers, paid, received>>

\* ------------------------------------------------------------ UpdateConfig
IsOwnerOrBackend(sender) == sender = config.owner \/ sender = config.backend_wallet
IsOwner(sender) == sender = config.owner

execute_update_config(sender, new_config) ==
    LET call == [op |-> "update_config", sender |-> sender,
                 config |-> new_config]
    IN  IF ~IsOwner(sender) THEN Fail(call, "Unauthorized")
        ELSE /\ config' = new_config
             /\ Respond(call, <<>>)
             /\ UNCHANGED <<state, round, claims, transfers, paid, received>>

\* ----------------------------------------------------------------- Receive
\* Verify it's from the ERTH token contract.
IsErthTokenOrAllocation(sender) ==
    sender = config.erth_token_contract \/ sender = config.allocation_contract
IsErthToken(sender) == sender = config.erth_token_contract

receive_allocation_into_round(call) ==
    /\ state' = [state EXCEPT !.pending_reward = @ + call.amount]
    /\ round' = IF round = None THEN round
                ELSE Some([round[1] EXCEPT !.total_amount = @ + call.amount])
    /\ received' = received + call.amount
    /\ Respond(call, <<>>)
    /\ UNCHANGED <<config, claims, transfers, paid>>
receive_allocation(call) ==
    /\ state' = [state EXCEPT !.pending_reward = @ + call.amount]
    /\ received' = received + call.amount
    /\ Respond(call, <<>>)
    /\ UNCHANGED <<config, round, claims, transfers, paid>>

receive_dispatch(sender, amount, payload) ==
    LET call == [op |-> "receive", sender |-> sender, amount |-> amount,
                 payload |-> payload]
    IN  /\ received + amount <= MaxFunds
        /\ IF ~IsErthToken(sender)
           THEN Fail(call, "Unauthorized: only ERTH token can send")
           ELSE IF payload # "allocation_send"
           THEN Fail(call, "Error parsing into type ReceiveMsg")
           ELSE receive_allocation(call)

\* ------------------------------------------------------------------ queries
\* The key query_has_claimed looks up.
HasClaimedKeyFirstRound(round_id, addr) == <<1, addr>>
HasClaimedKey(round_id, addr) == <<round_id, addr>>

\* query_has_claimed over a given round slot and ledger: queries read the
\* storage and write nothing.
HasClaimedIn(slot, ledger, address) ==
    IF slot = None THEN Err("not found")
    ELSE LET amount == KeymapGet(ledger, HasClaimedKey(slot[1].round_id, address))
         IN  Ok([has_claimed |-> amount # None, amount |-> amount])

query_has_claimed(address) == HasClaimedIn(round, claims, address)

\* -------------------------------------------------------------------- Next
Next ==
    \/ \E sender \in Claimants, stake_amount \in Stakes, proof \in Proofs :
           execute_claim(sender, stake_amount, proof)
    \/ \E sender \in Operators, merkle_root \in Roots, total_stake \in TotalStakes :
           execute_reset_airdrop(sender, merkle_root, total_stake)
    \/ \E sender \in Operators, new_config \in Configs :
           execute_update_config(sender, new_config)
    \/ \E sender \in Contracts, amount \in Deposits, payload \in Payloads :
           receive_dispatch(sender, amount, payload)

Spec == Init /\ [][Next]_vars

\* The same contract driven with the wider roots and proofs, by the backend
\* wallet, the reward token and the claimants only, through its first round.
InitWide == Init /\ config = Config0

NextWide ==
    \/ \E sender \in Claimants, stake_amount \in Stakes, proof \in WideProofs :
           execute_claim(sender, stake_amount, proof)
    \/ \E merkle_root \in WideRoots, total_stake \in WideTotalStakes :
           /\ round = None
           /\ execute_reset_airdrop("backend", merkle_root, total_stake)
    \/ \E amount \in WideDeposits :
           receive_dispatch("erth", amount, "allocation_send")

SpecWide == InitWide /\ [][NextWide]_vars

\* ------------------------------------------------------- names for the claims
NotFound == "No active airdrop round"
AlreadyClaimedError == "Already claimed for this round"
InvalidProof == {"Invalid merkle proof", "Invalid hex"}
ResetUnauthorized == "Unauthorized: only backend wallet can reset airdrop"

\* The proof verifies for (sender, stake_amount) against root.
Verifies(proof, root, sender, stake_amount) ==
    LET v == verify_merkle_proof(proof, root,
                 compute_leaf_hash(sender, to_string(stake_amount)))
    IN  v.ok /\ v.val

\* The Claim messages of the model, <<sender, stake_amount, proof>>, and for
\* each root those whose proof verifies against it (worked out once).
ClaimCalls == Claimants \X Stakes \X Proofs

RECURSIVE ValidCallsOf(_)
ValidCallsOf(roots) ==
    IF roots = {} THEN <<>>
    ELSE LET root == CHOOSE r \in roots : TRUE
         IN  (root :> UNION {IF Verifies(c[3], root, c[1], c[2]) THEN {c} ELSE {} :
                                c \in ClaimCalls})
             @@ ValidCallsOf(roots \ {root})

ValidCalls == ValidCallsOf(Roots)

\* The step is the Claim message c, handled.
IsClaim(c) == execute_claim(c[1], c[2], c[3])

\* The keys of the ledger that belong to round round_id.
KeysOfRound(round_id) == {key \in DOMAIN claims : key[1] = round_id}

\* floor(total_amount * stake / total_stake), summed over the records of keys.
RECURSIVE SumOfShares(_, _)
SumOfShares(keys, r) ==
    IF keys = {} THEN 0
    ELSE LET key == CHOOSE k \in keys : TRUE
         IN  (r.total_amount * ParseUint(claims[key])) \div r.total_stake
             + SumOfShares(keys \ {key}, r)

\* The roundId of the active round, 0 when there is none.
ActiveRoundId(slot) == IF slot = None THEN 0 ELSE slot[1].round_id

\* -------------------------------------------------------------------- claims
\* The claims about one message are stated of every step: for every message
\* the claim covers, either the step is not that message being handled, or
\* it ends as the claim says.

\* C1: once a participant has a ClaimRecord in the active round, every Claim
\* of theirs, whatever its stake and proof, fails with "Already claimed",
\* emits no message and leaves the round, the ledger and the transfer
\* history as they were; and no (roundId, participant) is ever sent more
\* than one transfer.
C1_ExactlyOncePayout ==
    [][ /\ (last'.op = "claim" /\ round # None) =>
           \A c \in ClaimCalls :
             <<round[1].round_id, c[1]>> \in DOMAIN claims
             => \/ /\ last'.err = AlreadyClaimedError
                   /\ last'.messages = <<>>
                   /\ round' = round
                   /\ claims' = claims
                   /\ transfers' = transfers
                   /\ paid' = paid
                \/ ~IsClaim(c)
        /\ \A key \in DOMAIN transfers' : transfers'[key] <= 1
      ]_vars

\* C1 witness: a participant who was paid in the active round claimed again
\* and was refused.
C1_Witness ==
    /\ last.op = "claim"
    /\ last.err = AlreadyClaimedError
    /\ round # None
    /\ \E key \in DOMAIN transfers :
          key[1] = round[1].round_id /\ transfers[key] = 1

\* C2: whenever an active round exists, claimedAmount <= totalAmount.
C2_ClaimedWithinTotal ==
    round # None => round[1].claimed_amount <= round[1].total_amount

\* C3: the active round's claimedAmount is the sum, over the ClaimRecords of
\* the active roundId, of floor(totalAmount * recordedStake / totalStake).
C3_Conservation ==
    round # None =>
        round[1].claimed_amount
            = SumOfShares(KeysOfRound(round[1].round_id), round[1])

\* C3 witness: both participants have claimed in a round whose shares do not
\* divide evenly, so some of the total is left as dust.
C3_Witness ==
    /\ round # None
    /\ Cardinality(KeysOfRound(round[1].round_id)) = 2
    /\ round[1].claimed_amount > 0
    /\ round[1].claimed_amount < round[1].total_amount

\* C4: whenever an active round exists its totalStake is > 0 (a ResetAirdrop
\* with totalStake = 0 having failed without changing state).
C4_DivisionSafety ==
    round # None => round[1].total_stake > 0

\* C5: a successful ResetAirdrop opens a round with totalAmount =
\* pendingReward + (prior.totalAmount - prior.claimedAmount) when a round
\* exists and pendingReward when none does, claimedAmount = 0, the supplied
\* merkleRoot and totalStake and roundId = currentRoundId + 1, and in the
\* same step sets pendingReward to 0 and currentRoundId to the new roundId.
C5_RolloverArithmetic ==
    [][ (last'.op = "reset_airdrop" /\ last'.err = "") =>
        \A sender \in Operators, merkle_root \in Roots, total_stake \in TotalStakes :
          \/ /\ round' # None
             /\ round'[1].total_amount =
                    state.pending_reward
                    + (IF round # None
                       THEN round[1].total_amount - round[1].claimed_amount
                       ELSE 0)
             /\ round'[1].claimed_amount = 0
             /\ round'[1].merkle_root = merkle_root
             /\ round'[1].total_stake = total_stake
             /\ round'[1].round_id = state.current_round_id + 1
             /\ state'.pending_reward = 0
             /\ state'.current_round_id = round'[1].round_id
          \/ ~execute_reset_airdrop(sender, merkle_root, total_stake)
      ]_vars

\* C5 witness: the second round has just been opened over a first round of
\* which 1 of 2 was claimed, with 1 pending: its total is 1 + 1 = 2.
C5_Witness ==
    /\ last.op = "reset_airdrop"
    /\ last.err = ""
    /\ round # None
    /\ round[1].round_id = 2
    /\ round[1].total_amount = 2
    /\ round[1].claimed_amount = 0
    /\ state.pending_reward = 0
    /\ received = 3
    /\ paid = 1

C7_RoundIsolation ==
    [][ (last'.op = "claim" /\ round # None) =>
        \A c \in ClaimCalls :
          ( /\ <<round[1].round_id, c[1]>> \notin DOMAIN claims
            /\ \E key \in DOMAIN claims :
                  key[2] = c[1] /\ key[1] < round[1].round_id
            /\ c \in ValidCalls[round[1].merkle_root] )
          => \/ /\ last'.err = ""
                /\ <<round[1].round_id, c[1]>> \in DOMAIN claims'
                /\ \A key \in DOMAIN claims :
                      key \in DOMAIN claims' /\ claims'[key] = claims[key]
             \/ ~IsClaim(c)
      ]_vars

\* C8: currentRoundId is 0 after initialization, with no round; a successful
\* ResetAirdrop opens the round whose roundId is one more than currentRoundId
\* (so the first opens round 1), and no other step, successful or failed,
\* changes currentRoundId or the active round's roundId.
C8_RoundNumbering ==
    /\ state.current_round_id = 0
    /\ round = None
    /\ [][ IF last'.op = "reset_airdrop" /\ last'.err = ""
           THEN /\ state'.current_round_id = state.current_round_id + 1
                /\ ActiveRoundId(round') = state.current_round_id + 1
           ELSE /\ state'.current_round_id = state.current_round_id
                /\ ActiveRoundId(round') = ActiveRoundId(round)
         ]_vars

\* C8 witness: the second reset has just opened round 2.
C8_Witness ==
    /\ last.op = "reset_airdrop"
    /\ last.err = ""
    /\ state.current_round_id = 2
    /\ ActiveRoundId(round) = 2

\* The messages and the new claimedAmount of a Claim c that succeeded.
PaidOut(c) ==
    /\ round # None
    /\ round[1].total_stake > 0
    /\ c \in ValidCalls[round[1].merkle_root]
    /\ Len(last'.messages) = 2
    /\ last'.messages[1].kind = "transfer"
    /\ last'.messages[1].contract_addr = config.erth_token_contract
    /\ last'.messages[1].recipient = c[1]
    /\ last'.messages[1].amount =
           (round[1].total_amount * c[2]) \div round[1].total_stake
    /\ last'.messages[2].kind = "claim_allocation"
    /\ last'.messages[2].contract_addr = config.allocation_contract
    /\ round'[1].claimed_amount =
           round[1].claimed_amount + last'.messages[1].amount

\* C9: a Claim that succeeds is one with a proof that verifies, in a round
\* with totals (T, S); it emits exactly one transfer, to the caller, on the
\* reward token, of floor(T * stake / S), and one allocation claim to the
\* allocation contract, and adds that same amount to claimedAmount.
C9_PayoutOfClaim ==
    [][ (last'.op = "claim" /\ last'.err = "") =>
        \A c \in ClaimCalls : PaidOut(c) \/ ~IsClaim(c)
      ]_vars

\* C9 witness: totalStake 3, totalAmount 3, addrB claims with stake 2: the
\* transfer is 2 and claimedAmount becomes 2.
C9_Witness ==
    /\ last.op = "claim"
    /\ last.err = ""
    /\ last.messages[1].recipient = "addrB"
    /\ last.messages[1].amount = 2
    /\ round # None
    /\ round[1].total_stake = 3
    /\ round[1].total_amount = 3
    /\ round[1].claimed_amount = 2
    /\ claims[<<round[1].round_id, "addrB">>] = to_string(2)

\* C10: a Claim with no active round fails "No active airdrop round"; a Claim
\* by a caller without a record in the active round whose proof does not
\* verify against the active root fails as an invalid proof; and a Claim that
\* fails, for whatever reason, writes no ClaimRecord, leaves claimedAmount and
\* all other state unchanged and emits no message.
C10_FailedClaimChangesNothing ==
    [][ last'.op = "claim" =>
        /\ round = None => last'.err = NotFound
        /\ last'.err # ""
           => /\ last'.messages = <<>>
              /\ UNCHANGED storage
              /\ UNCHANGED history
        /\ (round # None /\ last'.err \notin InvalidProof) =>
           \A c \in ClaimCalls :
             ( /\ <<round[1].round_id, c[1]>> \notin DOMAIN claims
               /\ c \notin ValidCalls[round[1].merkle_root] )
             => ~IsClaim(c)
      ]_vars

\* C10 witness: a claim was refused for its proof in a round that has a
\* paid claim already.
C10_Witness ==
    /\ last.op = "claim"
    /\ last.err = "Invalid merkle proof"
    /\ round # None
    /\ round[1].claimed_amount > 0
    /\ KeysOfRound(round[1].round_id) # {}

\* The error of a Receive that is not from the reward token.
ReceiveUnauthorized == "Unauthorized: only ERTH token can send"

\* C12: a Receive from the reward token stored in Config with the recognised
\* payload succeeds, adds exactly amount to pendingReward and leaves the
\* active round, currentRoundId, Config and the ledger as they were; a
\* Receive from any other caller returns the authorization error and changes
\* nothing.
C12_FundingNotification ==
    [][ last'.op = "receive" =>
        \A sender \in Contracts, amount \in Deposits, payload \in Payloads :
          \/ /\ (sender = config.erth_token_contract /\ payload = "allocation_send")
                => /\ last'.err = ""
                   /\ state'.pending_reward = state.pending_reward + amount
                   /\ state'.current_round_id = state.current_round_id
                   /\ round' = round
                   /\ config' = config
                   /\ claims' = claims
             /\ sender # config.erth_token_contract
                => /\ last'.err = ReceiveUnauthorized
                   /\ last'.messages = <<>>
                   /\ UNCHANGED storage
                   /\ UNCHANGED history
          \/ ~receive_dispatch(sender, amount, payload)
      ]_vars

\* C12 witness: funds arrived while a round was active: they are pending and
\* the round's total is still what it was opened with.
C12_Witness ==
    /\ last.op = "receive"
    /\ last.err = ""
    /\ round # None
    /\ round[1].total_amount = 1
    /\ state.pending_reward = 2
    /\ received = 3

\* C13: an UpdateConfig from the owner stored in Config replaces Config with
\* the supplied value; from any other caller it returns the authorization
\* error and leaves Config as it was; and no step that is not an UpdateConfig
\* changes Config.
C13_ConfigOnlyByOwner ==
    [][ /\ last'.op = "update_config" =>
           \A sender \in Operators, new_config \in Configs :
             \/ /\ sender = config.owner
                   => /\ last'.err = ""
                      /\ config' = new_config
                /\ sender # config.owner
                   => /\ last'.err = "Unauthorized"
                      /\ config' = config
             \/ ~execute_update_config(sender, new_config)
        /\ last'.op # "update_config" => config' = config
      ]_vars

\* C13 witness: the owner's update was accepted while a round with claims is
\* active, and the stored Config is the one with the roles exchanged.
C13_Witness ==
    /\ last.op = "update_config"
    /\ last.err = ""
    /\ config = Config1
    /\ round # None
    /\ KeysOfRound(round[1].round_id) # {}

\* C14: all that Receive ever accepted equals pendingReward, plus what is
\* left of the active round (totalAmount - claimedAmount as an unsigned
\* amount, 0 with no round), plus all that the transfers of claims carried.
C14_ValueConservation ==
    LET left == IF round = None THEN Ok(0)
                ELSE checked_sub(round[1].total_amount, round[1].claimed_amount)
    IN  /\ left.ok
        /\ received = state.pending_reward + left.val + paid

\* C15: a ClaimRecord, once written, is there with the same stake in every
\* later state: no step removes or rewrites a record.
C15_LedgerAppendOnly ==
    [][ \A key \in DOMAIN claims :
          key \in DOMAIN claims' /\ claims'[key] = claims[key]
      ]_vars

\* C15 witness: a record of round 1 is still there after the reset to round 2
\* and another participant's claim in round 2.
C15_Witness ==
    /\ <<1, "addrA">> \in DOMAIN claims
    /\ <<2, "addrB">> \in DOMAIN claims
    /\ round # None
    /\ round[1].round_id = 2
    /\ last.op = "claim"
    /\ last.err = ""

\* C17: in every state a ResetAirdrop from the backend wallet stored in
\* Config with totalStake > 0 succeeds and installs a new active round.
C17_ResetNeverStuck ==
    [][ last'.op = "reset_airdrop" =>
        \A sender \in Operators, merkle_root \in Roots, total_stake \in TotalStakes :
          (sender = config.backend_wallet /\ total_stake > 0)
          => \/ /\ last'.err = ""
                /\ round' # None
                /\ round'[1].round_id = state.current_round_id + 1
                /\ round'[1].merkle_root = merkle_root
                /\ round'[1].total_stake = total_stake
             \/ ~execute_reset_airdrop(sender, merkle_root, total_stake)
      ]_vars

\* C18: on every step that is not a successful ResetAirdrop the active round
\* stays, with its roundId, merkleRoot, totalAmount, totalStake and startTime
\* as they were and a claimedAmount that is not less than it was.
C18_RoundFieldsFrozen ==
    [][ (round # None /\ ~(last'.op = "reset_airdrop" /\ last'.err = ""))
        => /\ round' # None
           /\ round'[1].round_id = round[1].round_id
           /\ round'[1].merkle_root = round[1].merkle_root
           /\ round'[1].total_amount = round[1].total_amount
           /\ round'[1].total_stake = round[1].total_stake
           /\ round'[1].start_time = round[1].start_time
           /\ round'[1].claimed_amount >= round[1].claimed_amount
      ]_vars

\* C18 witness: a Receive was accepted in a round with a paid claim: the
\* amount is pending and the round's total is below all that was received.
C18_Witness ==
    /\ last.op = "receive"
    /\ last.err = ""
    /\ round # None
    /\ round[1].claimed_amount = 1
    /\ state.pending_reward = 1
    /\ round[1].total_amount < received

\* The answer of HasClaimed for an address without a record.
NotClaimed == Ok([has_claimed |-> FALSE, amount |-> None])

\* C19: HasClaimed fails when there is no round; with a round it answers
\* true, with the recorded stake, exactly when the ledger has a record under
\* (active roundId, address); right after a successful ResetAirdrop it
\* answers false for every address; and an answer turns from false to true
\* only by that address's successful Claim.
C19_HasClaimedOfActiveRound ==
    /\ [](\A address \in Claimants :
            LET answer == query_has_claimed(address)
            IN  IF round = None THEN ~answer.ok
                ELSE IF <<round[1].round_id, address>> \in DOMAIN claims
                THEN answer = Ok([has_claimed |-> TRUE,
                                  amount |-> Some(claims[<<round[1].round_id, address>>])])
                ELSE answer = NotClaimed)
    /\ [][ /\ (last'.op = "reset_airdrop" /\ last'.err = "")
              => \A address \in Claimants :
                    HasClaimedIn(round', claims', address) = NotClaimed
           /\ \A address \in Claimants :
                ( /\ query_has_claimed(address) = NotClaimed
                  /\ HasClaimedIn(round', claims', address) # NotClaimed )
                => /\ last'.op = "claim"
                   /\ last'.err = ""
                   /\ last'.messages[1].recipient = address
         ]_vars

\* C19 witness: round 2 has just been opened; an address that claimed in
\* round 1 is answered false.
C19_Witness ==
    /\ last.op = "reset_airdrop"
    /\ last.err = ""
    /\ round # None
    /\ round[1].round_id = 2
    /\ <<1, "addrB">> \in DOMAIN claims
    /\ query_has_claimed("addrB") = NotClaimed

\* C20: an active round is stored exactly when currentRoundId > 0, and its
\* roundId is currentRoundId.
C20_RoundSlotConsistency ==
    /\ round # None <=> state.current_round_id > 0
    /\ round # None => round[1].round_id = state.current_round_id

\* C20 witness: a claim has been paid in round 2, the second round stored.
C20_Witness ==
    /\ state.current_round_id = 2
    /\ round # None
    /\ round[1].round_id = 2
    /\ round[1].claimed_amount > 0

\* ------------------------------------------------ the snapshots as trees
\* What the backend publishes for a snapshot: the root, and for every
\* (address, stake) of the snapshot the proof it hands out, the siblings from
\* the leaf up in lower-case hex with "0x".
TreeA2 == [root |-> RootA2, members |-> {<<"addrA", 2, <<>>>>}]

TreeAB ==
    [root |-> RootAB,
     members |-> {<<"addrA", 1, <<LeafB>>>>, <<"addrB", 2, <<LeafA>>>>}]

Tree3 ==
    [root |-> Root3,
     members |-> {<<"addrA", 1, <<LeafB, LeafC>>>>,
                  <<"addrB", 2, <<LeafA, LeafC>>>>,
                  <<"owner", 1, <<RootAB>>>>}]

Trees == {TreeA2, TreeAB, Tree3}

\* The hashes a proof spells, element by element.
DecodedProof(proof) == [i \in 1..Len(proof) |-> hex_to_bytes(proof[i])]

\* The Claim messages of the wider runs.
WideClaimCalls == Claimants \X Stakes \X WideProofs

\* c names a member of the tree published under root, with a proof that
\* spells the member's siblings (in whatever case, with or without "0x").
SpellsProofOf(c, root) ==
    \E tree \in Trees :
       /\ tree.root = root
       /\ \E member \in tree.members :
             /\ member[1] = c[1]
             /\ member[2] = c[2]
             /\ DecodedProof(c[3]) = DecodedProof(member[3])

\* c names a member of the tree published under root, with exactly the proof
\* strings the backend handed out.
CarriesProofOf(c, root) ==
    \E tree \in Trees :
       /\ tree.root = root
       /\ <<c[1], c[2], c[3]>> \in tree.members

RECURSIVE SpelledCallsOf(_)
SpelledCallsOf(roots) ==
    IF roots = {} THEN <<>>
    ELSE LET root == CHOOSE r \in roots : TRUE
         IN  (root :> UNION {IF SpellsProofOf(c, root) THEN {c} ELSE {} :
                                c \in WideClaimCalls})
             @@ SpelledCallsOf(roots \ {root})

SpelledCalls == SpelledCallsOf(WideRoots)

RECURSIVE CarriedCallsOf(_)
CarriedCallsOf(roots) ==
    IF roots = {} THEN <<>>
    ELSE LET root == CHOOSE r \in roots : TRUE
         IN  (root :> UNION {IF CarriesProofOf(c, root) THEN {c} ELSE {} :
                                c \in WideClaimCalls})
             @@ CarriedCallsOf(roots \ {root})

CarriedCalls == CarriedCallsOf(WideRoots)

\* The root in the form the verifier prints: lower case, one "0x".
Canonical(root) == [root EXCEPT !.prefix = 1, !.upper = FALSE]

\* C11 (as amended): against the stored root, the verifier accepts the claim
\* of a caller without a record exactly when the root string is the published
\* root of a tree, (caller, stake) is a member of it and the proof spells the
\* member's siblings in order; so the built proof is accepted, an empty proof
\* only when the leaf is the root, and a proof with another or a reordered
\* hash, another root string, another address or another stake is refused.
C11_ProofSoundness ==
    [][ (last'.op = "claim" /\ round # None) =>
        \A c \in WideClaimCalls :
          <<round[1].round_id, c[1]>> \notin DOMAIN claims
          => \/ IF c \in SpelledCalls[round[1].merkle_root]
                THEN last'.err = ""
                ELSE last'.err \in InvalidProof
             \/ ~IsClaim(c)
      ]_vars

\* C11 witness: in a round of the three-leaf tree the claim of addrA with
\* its two-element proof was accepted.
C11_Witness ==
    /\ last.op = "claim"
    /\ last.err = ""
    /\ round # None
    /\ round[1].merkle_root = Root3
    /\ last.messages[1].recipient = "addrA"
    /\ claims[<<round[1].round_id, "addrA">>] = to_string(1)

\* C11 (as stated): the verifier accepts the built proof and refuses every
\* claim in which a proof element, the root, the address or the stake differs
\* from what was built.
C11_AnyChangeRefused ==
    [][ (last'.op = "claim" /\ round # None) =>
        \A c \in WideClaimCalls :
          <<round[1].round_id, c[1]>> \notin DOMAIN claims
          => \/ IF c \in CarriedCalls[round[1].merkle_root]
                THEN last'.err = ""
                ELSE last'.err \in InvalidProof
             \/ ~IsClaim(c)
      ]_vars

\* C16: a round whose merkleRoot was supplied without "0x" or in upper case
\* accepts the claims that the round with the lower-case "0x" root accepts:
\* a caller without a record whose proof is right for the root in its
\* canonical form is paid, and every other is refused as an invalid proof.
C16_RootNormalization ==
    [][ (last'.op = "claim" /\ round # None) =>
        \A c \in WideClaimCalls :
          <<round[1].round_id, c[1]>> \notin DOMAIN claims
          => \/ IF c \in SpelledCalls[Canonical(round[1].merkle_root)]
                THEN last'.err = ""
                ELSE last'.err \in InvalidProof
             \/ ~IsClaim(c)
      ]_vars

====
